---- MODULE Spec2Model ----
(***************************************************************************)
(* Memory blocks of theodoremui/memagents:                                 *)
(*   CondensedMemoryBlock              (asdrp/memory/condensed_memory.py)  *)
(*   PropositionExtractionMemoryBlock  (asdrp/memory/                      *)
(*                                      proposition_extraction_memory.py)  *)
(*                                                                         *)
(* Python strings are sequences of one-character strings, so that strip,   *)
(* slicing, joining, formatting and the regular expression of the parser   *)
(* are computed character by character.  The LLM and the tokenizer are     *)
(* external: an LLM call is a nondeterministic choice among sample replies *)
(* (or a raised failure), the tokenizer is a fixed deterministic count.    *)
(***************************************************************************)
EXTENDS Integers, Sequences, FiniteSets, TLC

VARIABLES
    current_memory,   \* CondensedMemoryBlock.current_memory : list of str
    token_limit,      \* CondensedMemoryBlock.token_limit
    cMessages,        \* history: the messages the last _aput was called with
    cAppended,        \* history: the entries the last _aput appended, in order
    cOutcome,         \* history: how the last _aput ended: "none", "ok", "raised", "hang"
    cCalls,           \* history: the acomplete calls of the last _aput, as (turn, block) positions
    propositions,     \* PropositionExtractionMemoryBlock.propositions : list of str
    max_propositions, \* PropositionExtractionMemoryBlock.max_propositions
    pLast,            \* history: record of the last _aput of the proposition block
    pRepeat,          \* history: the last two _aput calls got the same candidates and neither called the condenser
    pTriggered,       \* history: some _aput of this block has called the condenser
    agent,            \* which agent owns the memory, and so which block is in use
    got,              \* what the last call on the block returned, when it was _aget
    aReply,           \* history: the last achat of the agent, its inputs and how it ended
    xml_parts,        \* the argument of _parse_propositions_xml, as the pieces it is made of
    parsed,           \* what _parse_propositions_xml returned for it
    sArgs,            \* the arguments of one call of summarize_text_with_llm, and what acomplete does
    sResult,          \* what that call returned or raised
    eMemory,          \* current_memory while the eviction loop of one _aput runs
    eLimit,           \* token_limit of that block
    eStart,           \* history: current_memory when the loop was entered
    eRemovals,        \* history: how often the loop body has run
    ePc,              \* where the loop is: "loop" at its condition, "done" after it
    cConc,            \* the _aput coroutines running on one CondensedMemoryBlock
    pConc             \* the _aput coroutines running on one PropositionExtractionMemoryBlock

vars == <<current_memory, token_limit, cMessages, cAppended, cOutcome, cCalls,
          propositions, max_propositions, pLast, pRepeat, pTriggered,
          agent, got, aReply, xml_parts, parsed,
          sArgs, sResult, eMemory, eLimit, eStart, eRemovals, ePc,
          cConc, pConc>>

cvars == <<current_memory, token_limit, cMessages, cAppended, cOutcome, cCalls>>
pvars == <<propositions, max_propositions, pLast, pRepeat, pTriggered>>
xvars == <<xml_parts, parsed>>
rvars == <<agent, got, aReply>>
svars == <<sArgs, sResult>>
evars == <<eMemory, eLimit, eStart, eRemovals, ePc>>
kvars == <<cConc, pConc>>

----------------------------------------------------------------------------
(* Bounds of the model *)

\* most messages passed to one CondensedMemoryBlock._aput
MaxTurns == 2
\* _aput is not taken when it would hold more than this many entries before eviction
MaxEntries == 3
\* most <proposition> elements in one sample extractor reply
MaxCands == 2
\* most segments an argument of _parse_propositions_xml is made of
MaxSegs == 4
\* most propositions held by the block of an agent when achat is called
MaxStored == 2
\* most characters of a text given to summarize_text_with_llm on its own
MaxTextLen == 3
\* most entries current_memory has when the eviction loop is run on its own
MaxEvictEntries == 3
\* most runs of the loop body that are followed (the loop never ends under
\* a negative token_limit)
MaxRemovals == MaxEvictEntries + 2
\* most _aput calls started on one instance while calls may overlap
MaxIngests == 2

----------------------------------------------------------------------------
(* Strings *)

Str(n, c) == [i \in 1..n |-> c]

IsSpace(ch) == ch \in {" ", "\n", "\t"}

RECURSIVE lstrip(_)
lstrip(s) == IF s # <<>> /\ IsSpace(Head(s)) THEN lstrip(Tail(s)) ELSE s

RECURSIVE rstrip(_)
rstrip(s) ==
    IF s # <<>> /\ IsSpace(s[Len(s)]) THEN rstrip(SubSeq(s, 1, Len(s) - 1)) ELSE s

strip(s) == rstrip(lstrip(s))

\* sep.join(parts)
RECURSIVE join(_, _)
join(sep, parts) ==
    IF parts = <<>> THEN <<>>
    ELSE IF Len(parts) = 1 THEN parts[1]
    ELSE parts[1] \o sep \o join(sep, Tail(parts))

\* s[:n]
Prefix(s, n) == SubSeq(s, 1, IF n < Len(s) THEN n ELSE Len(s))

\* s[1:] of a list
Drop1(xs) == IF xs = <<>> THEN <<>> ELSE Tail(xs)

\* whether needle occurs in hay at position i
OccursAt(needle, hay, i) ==
    /\ i >= 1
    /\ i + Len(needle) - 1 <= Len(hay)
    /\ SubSeq(hay, i, i + Len(needle) - 1) = needle

IsSuffixOf(xs, ys) ==
    /\ Len(xs) <= Len(ys)
    /\ xs = SubSeq(ys, Len(ys) - Len(xs) + 1, Len(ys))

NoDuplicates(xs) == \A i, j \in 1..Len(xs) : xs[i] = xs[j] => i = j

\* all sequences over S of length 0..n
SeqsUpTo(S, n) == UNION {[1..k -> S] : k \in 0..n}

----------------------------------------------------------------------------
(* String literals *)

K_tool_calls == <<"t", "o", "o", "l", "_", "c", "a", "l", "l", "s">>
K_session_id == <<"s", "e", "s", "s", "i", "o", "n", "_", "i", "d">>
K_tool_call_id == <<"t", "o", "o", "l", "_", "c", "a", "l", "l", "_", "i", "d">>
K_keep == <<"k", "e", "e", "p">>
K_name == <<"n", "a", "m", "e">>
K_args == <<"a", "r", "g", "s">>
S_hi == <<"h", "i">>
S_go == <<"g", "o">>
S_search == <<"s", "e", "a", "r", "c", "h">>
S_ok == <<"o", "k">>
S_call_1 == <<"c", "a", "l", "l", "_", "1">>
S_call_2 == <<"c", "a", "l", "l", "_", "2">>
S_ellipsis == <<".", ".", ".">>
NL == <<"\n">>
CommaSp == <<",", " ">>
ColonSp == <<":", " ">>

----------------------------------------------------------------------------
(* CondensedMemoryBlock *)

MAX_SUMMARY_CHARS == 128

\* an awaited LLM call either raises or returns a text
Raises == [raised |-> TRUE, text |-> <<>>]
Returns(t) == [raised |-> FALSE, text |-> t]

\* _aput returns None; _aget returns a text and the external calls it made
NoGet == [block |-> "none", text |-> <<>>, calls |-> <<>>]

\* sample replies of self._llm.acomplete: a failure, a summary within the
\* ceiling (padded with whitespace), a summary over the ceiling whose cut
\* at the ceiling ends in whitespace
SummaryFits == <<" ">> \o S_ok \o <<" ">>
SummaryTooLong == Str(MAX_SUMMARY_CHARS - 1, "y") \o <<" ", "z", "z">>
SummarizerReplies == {Raises, Returns(SummaryFits), Returns(SummaryTooLong)}

\* message blocks
TextBlock(t) == [kind |-> "text", text |-> t]
ImageBlock == [kind |-> "image", text |-> <<>>]

\* values of additional_kwargs: a string, or the raw tool-call list
StrVal(t) == [kind |-> "str", str |-> t, calls |-> <<>>]
CallsVal(cs) == [kind |-> "calls", str |-> <<>>, calls |-> cs]
RawToolCall(id, name, arguments) ==
    [id |-> id, function |-> [name |-> name, arguments |-> arguments]]
KV(k, v) == [key |-> k, val |-> v]

ChatMessage(blocks, additional_kwargs) ==
    [blocks |-> blocks, additional_kwargs |-> additional_kwargs]

\* sample messages
MsgShort == ChatMessage(<<TextBlock(S_hi)>>, <<>>)
MsgLong == ChatMessage(<<ImageBlock, TextBlock(Str(MAX_SUMMARY_CHARS + 1, "x"))>>, <<>>)
MsgKw ==
    ChatMessage(<<>>, <<KV(K_session_id, StrVal(<<"x">>)),
                        KV(K_tool_call_id, StrVal(<<"y">>)),
                        KV(K_keep, StrVal(<<"z">>))>>)
MsgTool ==
    ChatMessage(<<TextBlock(<<" ">> \o S_go \o NL), ImageBlock>>,
                <<KV(K_tool_calls,
                     CallsVal(<<RawToolCall(S_call_1, S_search,
                                            <<KV(<<"q">>, <<"t">>)>>),
                                RawToolCall(S_call_2, S_go, <<>>)>>))>>)
MsgImage == ChatMessage(<<ImageBlock>>, <<KV(K_session_id, StrVal(<<"x">>))>>)
Messages == {MsgShort, MsgLong, MsgKw, MsgTool, MsgImage}

\* budgets a block is constructed with (the field is not validated)
TokenLimits == {-1, 0, 4, 40}

\* len(self._tokenizer.encode(message)): the tokenizer is external; here
\* one token per four characters, rounded up, and no token for ""
TokenCount(s) == (Len(s) + 3) \div 4

RECURSIVE message_length(_)
message_length(mem) ==
    IF mem = <<>> THEN 0 ELSE TokenCount(Head(mem)) + message_length(Tail(mem))

\* summarize_text_with_llm; reply is the outcome of the acomplete call,
\* read only when the call is made
\* variant of the length test: every text goes to the summarizer
NeedsSummaryAlways(text, max_chars) == TRUE

NeedsSummary(text, max_chars) == Len(strip(text)) > max_chars

\* variant of summarize_text_with_llm: the ellipsis is appended to the whole
\* summary
summarize_text_untruncated(text, max_chars, reply) ==
    IF ~NeedsSummary(text, max_chars)
    THEN [raised |-> FALSE, text |-> strip(text), called |-> FALSE]
    ELSE IF reply.raised
    THEN [raised |-> TRUE, text |-> <<>>, called |-> TRUE]
    ELSE LET summary == strip(reply.text)
         IN  [raised |-> FALSE,
              text |-> IF Len(summary) > max_chars
                       THEN rstrip(summary) \o S_ellipsis
                       ELSE summary,
              called |-> TRUE]

summarize_text_with_llm(text, max_chars, reply) ==
    IF ~NeedsSummary(text, max_chars)
    THEN [raised |-> FALSE, text |-> strip(text), called |-> FALSE]
    ELSE IF reply.raised
    THEN [raised |-> TRUE, text |-> <<>>, called |-> TRUE]
    ELSE LET summary == strip(reply.text)
         IN  [raised |-> FALSE,
              text |-> IF Len(summary) > max_chars
                       THEN rstrip(Prefix(summary, max_chars)) \o S_ellipsis
                       ELSE summary,
              called |-> TRUE]

\* one call of summarize_text_with_llm on its own: texts and replies of up to
\* MaxTextLen and MaxTextLen + 1 characters under ceilings of 0 to 2, and
\* the texts and replies of _aput under the ceiling of _aput
SmallCeilings == {0, 1, 2}
SummarizeInputs ==
    [text : SeqsUpTo({"x", " "}, MaxTextLen),
     max_chars : SmallCeilings,
     reply : {Raises} \cup {Returns(t) : t \in SeqsUpTo({"y", " "}, MaxTextLen + 1)}]
    \cup
    [text : {S_hi, Str(MAX_SUMMARY_CHARS, "x") \o <<" ">>, Str(MAX_SUMMARY_CHARS + 1, "x")},
     max_chars : {MAX_SUMMARY_CHARS},
     reply : SummarizerReplies]

NotSummarized == [raised |-> FALSE, text |-> <<>>, called |-> FALSE, done |-> FALSE]
NoSummarizeArgs == [text |-> <<>>, max_chars |-> 0, reply |-> Raises]

SInit ==
    /\ sArgs \in SummarizeInputs
    /\ sResult = NotSummarized

\* no call of summarize_text_with_llm on its own is under way
SIdle ==
    /\ sArgs = NoSummarizeArgs
    /\ sResult = NotSummarized

Summarize ==
    /\ ~sResult.done
    /\ LET r == summarize_text_with_llm(sArgs.text, sArgs.max_chars, sArgs.reply)
       IN  sResult' = [raised |-> r.raised, text |-> r.text, called |-> r.called,
                       done |-> TRUE]
    /\ UNCHANGED sArgs

\* the loop over message.blocks; replies are the outcomes of the successive
\* acomplete calls of this _aput, j is the position of Head(blocks) in the
\* message, called the positions of the blocks the summarizer was called for
RECURSIVE SummarizeBlocks(_, _, _, _, _)
SummarizeBlocks(blocks, j, replies, acc, called) ==
    IF blocks = <<>>
    THEN [raised |-> FALSE, summaries |-> acc, rest |-> replies, called |-> called]
    ELSE LET b == Head(blocks)
         IN  IF b.kind # "text"
             THEN SummarizeBlocks(Tail(blocks), j + 1, replies, acc, called)
             ELSE LET r == summarize_text_with_llm(
                               b.text, MAX_SUMMARY_CHARS,
                               IF replies = <<>> THEN Raises ELSE Head(replies))
                      now == IF r.called THEN Append(called, j) ELSE called
                  IN  IF r.raised
                      THEN [raised |-> TRUE, summaries |-> acc,
                            rest |-> Drop1(replies), called |-> now]
                      ELSE SummarizeBlocks(Tail(blocks), j + 1,
                                           IF r.called THEN Tail(replies) ELSE replies,
                                           Append(acc, r.text), now)

\* number of acomplete calls an _aput of these messages makes if none fails
RECURSIVE CallsOfBlocks(_)
CallsOfBlocks(blocks) ==
    IF blocks = <<>> THEN 0
    ELSE (IF Head(blocks).kind = "text"
             /\ NeedsSummary(Head(blocks).text, MAX_SUMMARY_CHARS) THEN 1 ELSE 0)
         + CallsOfBlocks(Tail(blocks))

RECURSIVE CallsOfMessages(_)
CallsOfMessages(messages) ==
    IF messages = <<>> THEN 0
    ELSE CallsOfBlocks(Head(messages).blocks) + CallsOfMessages(Tail(messages))

\* the reduced tool-call list
ReduceToolCall(tool_call) ==
    [name |-> tool_call.function.name, args |-> tool_call.function.arguments]

\* variant of the comprehension: the calls in reverse order
ReduceToolCallsReversed(val) ==
    [kind |-> "reduced", str |-> <<>>,
     calls |-> [i \in 1..Len(val.calls) |->
                   ReduceToolCall(val.calls[Len(val.calls) + 1 - i])]]

ReduceToolCalls(val) ==
    [kind |-> "reduced", str |-> <<>>,
     calls |-> [i \in 1..Len(val.calls) |-> ReduceToolCall(val.calls[i])]]

\* variant of the loop: without the test on session_id and tool_call_id
FilterKwargsKeepsIds(items) ==
    [i \in 1..Len(items) |->
        IF items[i].key = K_tool_calls
        THEN KV(items[i].key, ReduceToolCalls(items[i].val))
        ELSE items[i]]

\* the loop over message.additional_kwargs.items()
RECURSIVE FilterKwargs(_)
FilterKwargs(items) ==
    IF items = <<>> THEN <<>>
    ELSE LET key == Head(items).key
             val == Head(items).val
         IN  IF key = K_tool_calls
             THEN <<KV(key, ReduceToolCalls(val))>> \o FilterKwargs(Tail(items))
             ELSE IF key # K_session_id /\ key # K_tool_call_id
             THEN <<KV(key, val)>> \o FilterKwargs(Tail(items))
             ELSE FilterKwargs(Tail(items))

\* str() of the kwargs dict, as the f-string renders it
Quote(t) == <<"'">> \o t \o <<"'">>

ReprArgs(args) ==
    <<"{">> \o join(CommaSp, [i \in 1..Len(args) |->
                        Quote(args[i].key) \o ColonSp \o Quote(args[i].val)])
    \o <<"}">>

ReprCall(c) ==
    <<"{">> \o Quote(K_name) \o ColonSp \o Quote(c.name) \o CommaSp
    \o Quote(K_args) \o ColonSp \o ReprArgs(c.args) \o <<"}">>

ReprVal(v) ==
    IF v.kind = "str" THEN Quote(v.str)
    ELSE <<"[">> \o join(CommaSp, [i \in 1..Len(v.calls) |-> ReprCall(v.calls[i])])
         \o <<"]">>

ReprKwargs(kwargs) ==
    <<"{">> \o join(CommaSp, [i \in 1..Len(kwargs) |->
                        Quote(kwargs[i].key) \o ColonSp \o ReprVal(kwargs[i].val)])
    \o <<"}">>

\* the string appended for one message, given its blocks' summaries
MemoryStr(message, summaries) ==
    LET text_contents == join(NL, summaries)
        kwargs == FilterKwargs(message.additional_kwargs)
    IN  text_contents \o
        (IF kwargs # <<>> THEN NL \o <<"(">> \o ReprKwargs(kwargs) \o <<")">> ELSE <<>>)

\* the acomplete calls made for the message of turn k
CallsOfTurn(k, called) == [i \in 1..Len(called) |-> [turn |-> k, block |-> called[i]]]

\* variant of the loop over messages: a failing turn takes back the append
\* of the turn before it
RECURSIVE AppendMessagesRollingBack(_, _, _, _, _)
AppendMessagesRollingBack(mem, messages, k, replies, calls) ==
    IF messages = <<>> THEN [raised |-> FALSE, mem |-> mem, calls |-> calls]
    ELSE LET s == SummarizeBlocks(Head(messages).blocks, 1, replies, <<>>, <<>>)
             made == calls \o CallsOfTurn(k, s.called)
         IN  IF s.raised
             THEN [raised |-> TRUE,
                   mem |-> IF k > 1 THEN SubSeq(mem, 1, Len(mem) - 1) ELSE mem,
                   calls |-> made]
             ELSE AppendMessagesRollingBack(
                      Append(mem, MemoryStr(Head(messages), s.summaries)),
                      Tail(messages), k + 1, s.rest, made)

\* the loop over messages, k the turn of Head(messages): the list after the
\* appends, whether a summarizer call raised (the appends made before it
\* stay), and the acomplete calls made
RECURSIVE AppendMessages(_, _, _, _, _)
AppendMessages(mem, messages, k, replies, calls) ==
    IF messages = <<>> THEN [raised |-> FALSE, mem |-> mem, calls |-> calls]
    ELSE LET s == SummarizeBlocks(Head(messages).blocks, 1, replies, <<>>, <<>>)
             made == calls \o CallsOfTurn(k, s.called)
         IN  IF s.raised THEN [raised |-> TRUE, mem |-> mem, calls |-> made]
             ELSE AppendMessages(Append(mem, MemoryStr(Head(messages), s.summaries)),
                                 Tail(messages), k + 1, s.rest, made)

\* variant of the loop: an if in place of the while
EvictOnce(mem, limit) == IF message_length(mem) > limit THEN Drop1(mem) ELSE mem

\* variant of the loop: current_memory[:-1] in place of current_memory[1:]
DropLast(xs) == IF xs = <<>> THEN <<>> ELSE SubSeq(xs, 1, Len(xs) - 1)

RECURSIVE EvictFromTail(_, _)
EvictFromTail(mem, limit) ==
    IF message_length(mem) > limit THEN EvictFromTail(DropLast(mem), limit) ELSE mem

\* variant of the loop: >= in place of > in its condition
RECURSIVE EvictEager(_, _)
EvictEager(mem, limit) ==
    IF mem # <<>> /\ message_length(mem) >= limit
    THEN EvictEager(Drop1(mem), limit) ELSE mem

\* the while loop of _aput, for a limit under which it ends
RECURSIVE Evict(_, _)
Evict(mem, limit) ==
    IF message_length(mem) > limit THEN Evict(Drop1(mem), limit) ELSE mem

\* the while loop never ends when even the empty list is over the limit
EvictionDiverges(limit) == message_length(<<>>) > limit

\* the while loop of _aput, one evaluation of its condition at a time,
\* entered with a list of sample entries of 0, 1, 4 and 5 tokens
EvictionEntries == {<<>>, Str(4, "x"), Str(16, "x"), Str(17, "x")}

EInit ==
    /\ eStart \in SeqsUpTo(EvictionEntries, MaxEvictEntries)
    /\ eLimit \in TokenLimits
    /\ eMemory = eStart
    /\ eRemovals = 0
    /\ ePc = "loop"

\* no eviction loop on its own is under way
EIdle ==
    /\ eStart = <<>>
    /\ eLimit = 0
    /\ eMemory = <<>>
    /\ eRemovals = 0
    /\ ePc = "done"

\* variant of the loop body: the list is left as it is
EvictStepKeeping ==
    /\ ePc = "loop"
    /\ message_length(eMemory) > eLimit
    /\ eRemovals < MaxRemovals
    /\ eRemovals' = eRemovals + 1
    /\ UNCHANGED <<eMemory, eLimit, eStart, ePc>>

\* the condition holds: self.current_memory = self.current_memory[1:]
EvictStep ==
    /\ ePc = "loop"
    /\ message_length(eMemory) > eLimit
    /\ eRemovals < MaxRemovals
    /\ eMemory' = Drop1(eMemory)
    /\ eRemovals' = eRemovals + 1
    /\ UNCHANGED <<eLimit, eStart, ePc>>

\* the condition fails: the loop is left
EvictExit ==
    /\ ePc = "loop"
    /\ ~(message_length(eMemory) > eLimit)
    /\ ePc' = "done"
    /\ UNCHANGED <<eMemory, eLimit, eStart, eRemovals>>

CInit ==
    /\ current_memory = <<>>
    /\ token_limit \in TokenLimits
    /\ cMessages = <<>>
    /\ cAppended = <<>>
    /\ cOutcome = "none"
    /\ cCalls = <<>>

\* CondensedMemoryBlock._aput(messages)
Condensed_aput(messages, replies) ==
    /\ cOutcome # "hang"
    /\ Len(current_memory) + Len(messages) <= MaxEntries
    /\ \E r \in {AppendMessages(current_memory, messages, 1, replies, <<>>)} :
           /\ got' = NoGet
           /\ cMessages' = messages
           /\ cCalls' = r.calls
           /\ cAppended' = SubSeq(r.mem, Len(current_memory) + 1, Len(r.mem))
           /\ IF r.raised
              THEN /\ current_memory' = r.mem
                   /\ cOutcome' = "raised"
              ELSE IF EvictionDiverges(token_limit)
              THEN /\ current_memory' = <<>>
                   /\ cOutcome' = "hang"
              ELSE /\ current_memory' = Evict(r.mem, token_limit)
                   /\ cOutcome' = "ok"
    /\ UNCHANGED token_limit

\* variant of _aget: the entries are handed over and the list is cleared
Condensed_aget_consuming ==
    /\ cOutcome # "hang"
    /\ got' = [block |-> "condensed", text |-> join(NL, current_memory),
               calls |-> <<>>]
    /\ current_memory' = <<>>
    /\ UNCHANGED <<token_limit, cMessages, cAppended, cOutcome, cCalls>>

\* CondensedMemoryBlock._aget(); a block whose eviction loop never ends
\* serves no further call
Condensed_aget_text(mem) == join(NL, mem)

Condensed_aget ==
    /\ cOutcome # "hang"
    /\ got' = [block |-> "condensed", text |-> Condensed_aget_text(current_memory),
               calls |-> <<>>]
    /\ UNCHANGED <<current_memory, token_limit, cMessages, cAppended, cOutcome, cCalls>>

\* the outcomes of n successive acomplete calls; no call follows one that
\* raised, so the outcomes listed after a failure are all that failure
ReplySeqs(n) ==
    {rs \in [1..n -> SummarizerReplies] :
        \A i \in 1..(n - 1) : rs[i].raised => rs[i + 1].raised}

CNext ==
    \E messages \in SeqsUpTo(Messages, MaxTurns) :
        \E replies \in ReplySeqs(CallsOfMessages(messages)) :
            Condensed_aput(messages, replies)

----------------------------------------------------------------------------
(* PropositionExtractionMemoryBlock *)

OpenTag == <<"<", "p", "r", "o", "p", "o", "s", "i", "t", "i", "o", "n", ">">>
CloseTag == <<"<", "/", "p", "r", "o", "p", "o", "s", "i", "t", "i", "o", "n", ">">>
EnvelopeOpen == <<"<", "p", "r", "o", "p", "o", "s", "i", "t", "i", "o", "n", "s", ">">>
EnvelopeClose == <<"<", "/", "p", "r", "o", "p", "o", "s", "i", "t", "i", "o", "n", "s", ">">>
S_no_new_facts == <<"N", "o", " ", "n", "e", "w", " ", "f", "a", "c", "t", "s", ".">>

\* an awaited llm.achat call raises, or returns a message whose content is
\* None or a text
ChatRaises == [raised |-> TRUE, none |-> FALSE, text |-> <<>>]
ChatNone == [raised |-> FALSE, none |-> TRUE, text |-> <<>>]
ChatText(t) == [raised |-> FALSE, none |-> FALSE, text |-> t]

\* response.message.content or ""
ContentOrEmpty(reply) == IF reply.none THEN <<>> ELSE reply.text

\* f"<proposition>{proposition}</proposition>"
Wrap(proposition) == OpenTag \o proposition \o CloseTag

\* the rendering of the list used by _aget and by both prompts of _aput
RenderPropositions(props) ==
    join(NL, [i \in 1..Len(props) |-> Wrap(props[i])])

\* a reply in the format the prompts ask for
Envelope(contents) ==
    EnvelopeOpen \o NL
    \o join(NL, [i \in 1..Len(contents) |-> <<" ", " ">> \o Wrap(contents[i])])
    \o NL \o EnvelopeClose

\* sample replies of the extractor call: a failure, no content, text without
\* tags, an open tag never closed, a blank proposition, a padded proposition
\* in another case that begins with a second open tag, and the asked-for
\* envelope around up to MaxCands propositions
CandContents == {<<"A">>, <<"B">>}
ExtractorReplies ==
    {ChatRaises, ChatNone,
     ChatText(S_no_new_facts),
     ChatText(OpenTag \o <<"A">>),
     ChatText(Wrap(<<" ", "\n">>)),
     ChatText(Envelope(<< <<" ">> \o OpenTag \o <<"a", "\n">> >>))}
    \cup {ChatText(Envelope(cs)) : cs \in SeqsUpTo(CandContents, MaxCands)}

\* sample replies of the condenser call: a failure, text without tags, and
\* envelopes that keep one proposition, merge all into a new one, repeat a
\* proposition, and return three propositions
CondenserReplies ==
    {ChatRaises,
     ChatText(S_no_new_facts),
     ChatText(Envelope(<< <<"A">> >>)),
     ChatText(Envelope(<< <<"C">> >>)),
     ChatText(Envelope(<< <<"A">>, <<"A">> >>)),
     ChatText(Envelope(<< <<"C">>, <<"A">>, <<"B">> >>))}

\* caps a block is constructed with (the field is not validated)
Caps == {1, 2}

\* messages passed to _aput
PropTurns == {<<>>, <<MsgShort>>}

\* smallest index >= i at which needle occurs in hay, 0 if none
RECURSIVE FindFrom(_, _, _)
FindFrom(needle, hay, i) ==
    IF i + Len(needle) - 1 > Len(hay) THEN 0
    ELSE IF OccursAt(needle, hay, i) THEN i
    ELSE FindFrom(needle, hay, i + 1)

\* variant of the search: a greedy (.*) in place of (.*?)
RECURSIVE FindLastFrom(_, _, _)
FindLastFrom(needle, hay, i) ==
    LET n == FindFrom(needle, hay, i)
    IN  IF n = 0 THEN 0
        ELSE LET m == FindLastFrom(needle, hay, n + 1) IN IF m = 0 THEN n ELSE m

FindAllGreedy(xml_text, pos) ==
    LET open == FindFrom(OpenTag, xml_text, pos)
        from == open + Len(OpenTag)
        close == IF open = 0 THEN 0 ELSE FindLastFrom(CloseTag, xml_text, from)
    IN  IF open = 0 \/ close = 0 THEN <<>>
        ELSE <<SubSeq(xml_text, from, close - 1)>>

\* variant of the search: an open tag that is never closed matches up to the
\* end of the text
RECURSIVE FindAllLenient(_, _)
FindAllLenient(xml_text, pos) ==
    LET open == FindFrom(OpenTag, xml_text, pos)
        from == open + Len(OpenTag)
        close == IF open = 0 THEN 0 ELSE FindFrom(CloseTag, xml_text, from)
    IN  IF open = 0 THEN <<>>
        ELSE IF close = 0 THEN <<SubSeq(xml_text, from, Len(xml_text))>>
        ELSE <<SubSeq(xml_text, from, close - 1)>>
             \o FindAllLenient(xml_text, close + Len(CloseTag))

\* re.findall(r"<proposition>(.*?)</proposition>", xml_text, re.DOTALL),
\* scanning from position pos
RECURSIVE FindAll(_, _)
FindAll(xml_text, pos) ==
    LET open == FindFrom(OpenTag, xml_text, pos)
        from == open + Len(OpenTag)
        close == IF open = 0 THEN 0 ELSE FindFrom(CloseTag, xml_text, from)
    IN  IF open = 0 \/ close = 0 THEN <<>>
        ELSE <<SubSeq(xml_text, from, close - 1)>>
             \o FindAll(xml_text, close + Len(CloseTag))

\* variant of the clean-up loop: the matches are kept as they are found
RECURSIVE CleanMatchesUnstripped(_)
CleanMatchesUnstripped(matches) ==
    IF matches = <<>> THEN <<>>
    ELSE (IF strip(Head(matches)) # <<>> THEN <<Head(matches)>> ELSE <<>>)
         \o CleanMatchesUnstripped(Tail(matches))

\* the clean-up loop over the matches
RECURSIVE CleanMatches(_)
CleanMatches(matches) ==
    IF matches = <<>> THEN <<>>
    ELSE LET proposition == strip(Head(matches))
         IN  (IF proposition # <<>> THEN <<proposition>> ELSE <<>>)
             \o CleanMatches(Tail(matches))

parse_propositions_xml(xml_text) == CleanMatches(FindAll(xml_text, 1))

InList(x, xs) == \E i \in 1..Len(xs) : xs[i] = x

\* variant of the merge loop: no membership test
MergeNoCheck(props, new_propositions) == props \o new_propositions

\* variant of the merge loop: membership tested against the list as it was
\* before the loop
MergeAgainstOld(props, new_propositions) ==
    props \o SelectSeq(new_propositions, LAMBDA x : ~InList(x, props))

\* the merge loop of _aput
RECURSIVE Merge(_, _)
Merge(props, new_propositions) ==
    IF new_propositions = <<>> THEN props
    ELSE IF ~InList(Head(new_propositions), props)
    THEN Merge(Append(props, Head(new_propositions)), Tail(new_propositions))
    ELSE Merge(props, Tail(new_propositions))

\* self._parse_propositions_xml(response.message.content or "") for every
\* sample reply, tabulated once
ParsedReply ==
    [reply \in (ExtractorReplies \cup CondenserReplies) \ {ChatRaises} |->
        parse_propositions_xml(ContentOrEmpty(reply))]

\* variant of the extractor call: a failure is caught and read as an empty reply
ExtractionSwallowsFailure(reply) ==
    [raised |-> FALSE, new |-> IF reply.raised THEN <<>> ELSE ParsedReply[reply]]

\* the extractor call and the parsing of its reply
Extraction(reply) ==
    IF reply.raised THEN [raised |-> TRUE, new |-> <<>>]
    ELSE [raised |-> FALSE, new |-> ParsedReply[reply]]

\* variant of the condenser call: a failure is caught and read as an empty reply
CondensationSwallowsFailure(reply) ==
    [raised |-> FALSE, new |-> IF reply.raised THEN <<>> ELSE ParsedReply[reply]]

\* the condenser call and the parsing of its reply
Condensation(reply) ==
    IF reply.raised THEN [raised |-> TRUE, new |-> <<>>]
    ELSE [raised |-> FALSE, new |-> ParsedReply[reply]]

\* variant of the replacement: without the "if new_propositions" test
ReplaceAlways(merged, new_propositions) == new_propositions

\* variant of the replacement: the condenser output is deduplicated
ReplaceDeduplicated(merged, new_propositions) ==
    IF new_propositions # <<>> THEN Merge(<<>>, new_propositions) ELSE merged

\* if new_propositions: self.propositions = new_propositions
ReplaceIfAny(merged, new_propositions) ==
    IF new_propositions # <<>> THEN new_propositions ELSE merged

\* variant of the condenser call: the rendering made before the merge loop
\* appended its last proposition
CondenseCallStale(messages, props, cap, reply) ==
    [kind |-> "condense", messages |-> messages,
     existing_propositions |->
         RenderPropositions(SubSeq(props, 1, Len(props) - 1)),
     max_propositions |-> cap, reply |-> reply, raised |-> reply.raised]

\* an external call as the block issues it
ExtractCall(messages, props, reply) ==
    [kind |-> "extract", messages |-> messages,
     existing_propositions |-> RenderPropositions(props),
     max_propositions |-> 0, reply |-> reply, raised |-> reply.raised]

CondenseCall(messages, props, cap, reply) ==
    [kind |-> "condense", messages |-> messages,
     existing_propositions |-> RenderPropositions(props),
     max_propositions |-> cap, reply |-> reply, raised |-> reply.raised]

NoAput ==
    [outcome |-> "none", turns |-> 0, pre |-> <<>>, cands |-> <<>>,
     merged |-> <<>>, condensed |-> <<>>, calls |-> <<>>, post |-> <<>>]

\* variant of the first test of _aput: an empty list of messages is not skipped
NoMessagesNever(messages) == FALSE

\* if not messages: return
NoMessages(messages) == messages = <<>>

\* variant of the test before the condenser call: >= in place of >
OverCapOrAt(merged, cap) == Len(merged) >= cap

\* if len(self.propositions) > self.max_propositions
OverCap(merged, cap) == Len(merged) > cap

\* _aput as a function of the list, the cap, the messages and the outcomes
\* of the external calls: the list it leaves, how it ends, and its trace
aput_result(props, cap, messages, extractReply, condenseReply) ==
    IF NoMessages(messages)
    THEN [NoAput EXCEPT !.outcome = "noop", !.pre = props, !.merged = props,
                        !.post = props]
    ELSE LET e == Extraction(extractReply)
             c1 == ExtractCall(messages, props, extractReply)
         IN  IF e.raised
             THEN [NoAput EXCEPT !.outcome = "raised", !.turns = Len(messages),
                                 !.pre = props, !.merged = props,
                                 !.calls = <<c1>>, !.post = props]
             ELSE LET merged == Merge(props, e.new)
                      base == [NoAput EXCEPT !.turns = Len(messages), !.pre = props,
                                             !.cands = e.new, !.merged = merged]
                  IN  IF OverCap(merged, cap)
                      THEN LET c == Condensation(condenseReply)
                               c2 == CondenseCall(messages, merged, cap, condenseReply)
                           IN  IF c.raised
                               THEN [base EXCEPT !.outcome = "raised",
                                                 !.calls = <<c1, c2>>,
                                                 !.post = merged]
                               ELSE [base EXCEPT !.outcome = "ok",
                                                 !.condensed = c.new,
                                                 !.calls = <<c1, c2>>,
                                                 !.post = ReplaceIfAny(merged, c.new)]
                      ELSE [base EXCEPT !.outcome = "ok", !.calls = <<c1>>,
                                        !.post = merged]

Condensed(r) == Len(r.calls) = 2

PInit ==
    /\ propositions = <<>>
    /\ max_propositions \in Caps
    /\ pLast = NoAput
    /\ pRepeat = FALSE
    /\ pTriggered = FALSE

\* PropositionExtractionMemoryBlock._aput(messages)
Proposition_aput(messages, extractReply, condenseReply) ==
    \E r \in {aput_result(propositions, max_propositions, messages,
                          extractReply, condenseReply)} :
        /\ got' = NoGet
        /\ propositions' = r.post
        /\ pLast' = r
        /\ pRepeat' = /\ pLast.outcome = "ok" /\ ~Condensed(pLast)
                      /\ r.outcome = "ok" /\ ~Condensed(r)
                      /\ r.cands = pLast.cands
        /\ pTriggered' = (pTriggered \/ Condensed(r))
        /\ UNCHANGED max_propositions

\* variant of _aget: the propositions joined without their tags
Proposition_aget_unwrapped(props) == join(NL, props)

\* PropositionExtractionMemoryBlock._aget()
Proposition_aget_text(props) ==
    IF props = <<>> THEN <<>> ELSE join(NL, [i \in 1..Len(props) |-> Wrap(props[i])])

Proposition_aget ==
    /\ got' = [block |-> "proposition", text |-> Proposition_aget_text(propositions),
               calls |-> <<>>]
    /\ UNCHANGED pvars

\* the replies drawn for one _aput: none is drawn for a call that is not made
ExtractorOutcomes(messages) ==
    IF messages = <<>> THEN {ChatRaises} ELSE ExtractorReplies

CondenserOutcomes(messages, extractReply) ==
    IF Condensed(aput_result(propositions, max_propositions, messages,
                             extractReply, ChatRaises))
    THEN CondenserReplies ELSE {ChatRaises}

PNext ==
    \E messages \in PropTurns :
        \E extractReply \in ExtractorOutcomes(messages) :
            \E condenseReply \in CondenserOutcomes(messages, extractReply) :
                Proposition_aput(messages, extractReply, condenseReply)

----------------------------------------------------------------------------
(* _parse_propositions_xml on its own *)

\* concatenation of a sequence of sequences
RECURSIVE Concat(_)
Concat(xs) == IF xs = <<>> THEN <<>> ELSE Head(xs) \o Concat(Tail(xs))

\* sample arguments: up to MaxSegs segments, each an open tag, a close tag,
\* whitespace with a line break, the same before a letter, the opening
\* envelope tag, or a whole element
Segments ==
    {<<OpenTag>>, <<CloseTag>>, <<<<" ", "\n">>>>, <<<<" ", "\n">>, <<"A">>>>,
     <<EnvelopeOpen>>, <<OpenTag, <<"B">>, CloseTag>>}

XmlInputs == {Concat(segs) : segs \in SeqsUpTo(Segments, MaxSegs)}

NotParsed == [done |-> FALSE, value |-> <<>>]

XInit ==
    /\ xml_parts \in XmlInputs
    /\ parsed = NotParsed

\* self._parse_propositions_xml(xml_text)
Parse ==
    /\ ~parsed.done
    /\ parsed' = [done |-> TRUE, value |-> parse_propositions_xml(Concat(xml_parts))]
    /\ UNCHANGED xml_parts

XNext == Parse

----------------------------------------------------------------------------
(* The owner of the memory *)

\* SummaryAgent keeps a CondensedMemoryBlock, ReductiveAgent a
\* PropositionExtractionMemoryBlock
Agents == {"summary", "reductive"}

S_fallback ==
    <<"I", "'", "m", " ", "s", "o", "r", "r", "y", ",", " ", "I", "'", "m",
      " ", "h", "a", "v", "i", "n", "g", " ", "t", "r", "o", "u", "b", "l",
      "e", " ", "p", "r", "o", "c", "e", "s", "s", "i", "n", "g", " ", "y",
      "o", "u", "r", " ", "r", "e", "q", "u", "e", "s", "t", ".", " ", "P",
      "l", "e", "a", "s", "e", " ", "t", "r", "y", " ", "a", "g", "a", "i",
      "n", ".">>
S_known ==
    <<"K", "n", "o", "w", "n", " ", "p", "r", "o", "p", "o", "s", "i", "t",
      "i", "o", "n", "s", " ", "f", "r", "o", "m", " ", "c", "o", "n", "v",
      "e", "r", "s", "a", "t", "i", "o", "n", " ", "s", "o", " ", "f", "a",
      "r", ":", "\n">>
S_when_answering ==
    <<"\n", "W", "h", "e", "n", " ", "a", "n", "s", "w", "e", "r", "i",
      "n", "g", ",", " ", "r", "e", "f", "e", "r", "e", "n", "c", "e", " ",
      "t", "h", "e", " ", "k", "n", "o", "w", "n", " ", "p", "r", "o", "p",
      "o", "s", "i", "t", "i", "o", "n", "s", " ", "a", "b", "o", "v", "e",
      " ", "i", "f", " ", "r", "e", "l", "e", "v", "a", "n", "t", ".",
      "\n">>

\* the user messages passed to achat
UserMsgs == {S_hi, S_go, S_search}

\* what the memory read of ReductiveAgent.achat does: block._aget() returns,
\* or something in the read raises an Exception (the isinstance test admits
\* a subclass with its own _aget)
ReadOutcomes == {"ok", "Exception"}

\* what `await self.agent.run(...)` does: it returns an AgentOutput, a
\* ChatMessage or another object, or raises an Exception, or raises a
\* BaseException that is not an Exception (asyncio.CancelledError)
RunResult(type, content) == [type |-> type, content |-> content]
RunOutcomes ==
    {RunResult(type, content) :
         type \in {"AgentOutput", "ChatMessage"}, content \in {S_ok, <<>>}}
    \cup {RunResult("other", S_ok),
          RunResult("Exception", <<>>), RunResult("BaseException", <<>>)}

NoReply ==
    [outcome |-> "none", response_str |-> <<>>, read |-> "none",
     run |-> RunResult("none", <<>>), run_msg |-> <<>>]

\* AgentReply(response_str=...) returned by an achat that made this read and
\* this run
AgentReply(response_str, read, run, run_msg) ==
    [outcome |-> "returned", response_str |-> response_str, read |-> read,
     run |-> run, run_msg |-> run_msg]

\* the try body from the run on, and the except clause
RunAndReply(read, run, run_msg) ==
    IF run.type = "BaseException"
    THEN [outcome |-> "raised", response_str |-> <<>>, read |-> read, run |-> run,
          run_msg |-> run_msg]
    ELSE IF run.type = "Exception"
    THEN AgentReply(S_fallback, read, run, run_msg)
    ELSE AgentReply(run.content, read, run, run_msg)

\* SummaryAgent.achat(user_msg)
SummaryAchat(user_msg, run) == RunAndReply("none", run, user_msg)

\* variant of ReductiveAgent.achat: the memory read is made before the try
ReductiveAchatReadOutsideTry(props, user_msg, read, run) ==
    IF read = "Exception"
    THEN [outcome |-> "raised", response_str |-> <<>>, read |-> read,
          run |-> RunResult("none", <<>>), run_msg |-> <<>>]
    ELSE RunAndReply(read, run, user_msg)

\* ReductiveAgent.achat(user_msg) on a memory whose block holds props
ReductiveAchat(props, user_msg, read, run) ==
    IF read = "Exception"
    THEN AgentReply(S_fallback, read, RunResult("none", <<>>), <<>>)
    ELSE LET text == Proposition_aget_text(props)
             known == IF text # <<>>
                      THEN S_known \o text \o S_when_answering ELSE <<>>
         IN  RunAndReply(read, run, known \o user_msg)

\* lists the block of an agent holds when achat is called
StoredLists == SeqsUpTo(CandContents, MaxStored)

RInit ==
    /\ agent \in Agents
    /\ got = NoGet
    /\ aReply = NoReply

Summary_achat ==
    /\ agent = "summary"
    /\ \E user_msg \in UserMsgs : \E run \in RunOutcomes :
           aReply' = SummaryAchat(user_msg, run)
    /\ UNCHANGED <<cvars, pvars, xvars, svars, evars, kvars, agent, got>>

Reductive_achat ==
    /\ agent = "reductive"
    /\ \E user_msg \in UserMsgs : \E read \in ReadOutcomes :
           \E run \in (IF read = "ok" THEN RunOutcomes ELSE {RunResult("none", <<>>)}) :
               aReply' = ReductiveAchat(propositions, user_msg, read, run)
    /\ UNCHANGED <<cvars, pvars, xvars, svars, evars, kvars, agent, got>>

----------------------------------------------------------------------------
(* Overlapping _aput calls on one instance.  An _aput is a coroutine: it runs
   without interruption up to an await that suspends, and the event loop
   then runs another coroutine.  The only awaits that suspend are the LLM
   calls: acomplete in the condensed block, achat in the proposition block. *)

Tasks == {1, 2}

IdleTask ==
    [pc |-> "idle", messages |-> <<>>, turn |-> 0, block |-> 0, summaries |-> <<>>]

\* message lists the overlapping calls are made with
ConcMessageLists ==
    {<<MsgKw>>, <<MsgLong>>, <<MsgShort, MsgLong>>, <<MsgLong, MsgKw>>}

\* _aput of the condensed block from block j of turn k on, with the summaries
\* acc collected for that turn, up to the next acomplete call or to the end of
\* the loop over the messages
RECURSIVE RunTask(_, _, _, _, _)
RunTask(mem, messages, k, j, acc) ==
    IF k > Len(messages)
    THEN [pc |-> "evict", mem |-> mem, turn |-> k, block |-> j, summaries |-> acc]
    ELSE IF j > Len(messages[k].blocks)
    THEN RunTask(Append(mem, MemoryStr(messages[k], acc)), messages, k + 1, 1, <<>>)
    ELSE IF messages[k].blocks[j].kind # "text"
    THEN RunTask(mem, messages, k, j + 1, acc)
    ELSE IF NeedsSummary(messages[k].blocks[j].text, MAX_SUMMARY_CHARS)
    THEN [pc |-> "awaiting", mem |-> mem, turn |-> k, block |-> j, summaries |-> acc]
    ELSE RunTask(mem, messages, k, j + 1,
                 Append(acc, summarize_text_with_llm(messages[k].blocks[j].text,
                                                     MAX_SUMMARY_CHARS, Raises).text))

\* variant of the eviction loop: the last entry is never removed
RECURSIVE EvictKeepingOne(_, _)
EvictKeepingOne(mem, limit) ==
    IF Len(mem) > 1 /\ message_length(mem) > limit
    THEN EvictKeepingOne(Drop1(mem), limit) ELSE mem

\* the eviction loop, run without suspension by the coroutine that left the
\* loop over the messages
EvictBeforeReturn(mem, limit) == Evict(mem, limit)

\* the coroutine t has run to r: it is suspended in acomplete, or it has left
\* the loop over the messages and runs the eviction loop before it returns
TaskRunsTo(t, messages, r, started) ==
    IF r.pc = "awaiting"
    THEN /\ current_memory' = r.mem
         /\ cConc' = [task |-> [cConc.task EXCEPT
                          ![t] = [pc |-> "awaiting", messages |-> messages,
                                  turn |-> r.turn, block |-> r.block,
                                  summaries |-> r.summaries]],
                      started |-> started]
    ELSE IF EvictionDiverges(token_limit)
    THEN /\ current_memory' = <<>>
         /\ cConc' = [task |-> [cConc.task EXCEPT ![t] = [IdleTask EXCEPT !.pc = "hang"]],
                      started |-> started]
    ELSE /\ current_memory' = EvictBeforeReturn(r.mem, token_limit)
         /\ cConc' = [task |-> [cConc.task EXCEPT
                          ![t] = [IdleTask EXCEPT !.pc = "returned",
                                                  !.messages = messages]],
                      started |-> started]

\* a coroutine in the eviction loop under a negative token_limit never
\* yields, so no other coroutine runs again
EventLoopRuns == \A t \in Tasks : cConc.task[t].pc # "hang"

CKInit ==
    cConc = [task |-> [t \in Tasks |-> IdleTask], started |-> 0]

\* _aput(messages) is called as coroutine t and runs to its first suspension
Condensed_aput_start(t, messages) ==
    /\ EventLoopRuns
    /\ cConc.task[t].pc \in {"idle", "returned", "raised"}
    /\ cConc.started < MaxIngests
    /\ \E r \in {RunTask(current_memory, messages, 1, 1, <<>>)} :
           TaskRunsTo(t, messages, r, cConc.started + 1)
    /\ UNCHANGED token_limit

\* the acomplete call coroutine t is suspended in returns or raises, and the
\* coroutine runs to its next suspension
Condensed_aput_resume(t, reply) ==
    /\ EventLoopRuns
    /\ cConc.task[t].pc = "awaiting"
    /\ LET task == cConc.task[t]
           text == task.messages[task.turn].blocks[task.block].text
       IN  \E s \in {summarize_text_with_llm(text, MAX_SUMMARY_CHARS, reply)} :
               IF s.raised
               THEN /\ cConc' = [cConc EXCEPT
                           !.task[t] = [IdleTask EXCEPT !.pc = "raised",
                                                        !.messages = task.messages]]
                    /\ UNCHANGED current_memory
               ELSE \E r \in {RunTask(current_memory, task.messages, task.turn,
                                      task.block + 1, Append(task.summaries, s.text))} :
                        TaskRunsTo(t, task.messages, r, cConc.started)
    /\ UNCHANGED token_limit

\* a coroutine of the proposition block: where it is, the messages it was
\* called with, existing_propositions_text as it was rendered for its
\* extractor prompt, what its merge loop was given and what it appended, and
\* what the merge loops of other coroutines appended while its condenser call
\* was outstanding
IdlePTask ==
    [pc |-> "idle", messages |-> <<>>, existing |-> <<>>, cands |-> <<>>,
     added |-> <<>>, since |-> {}]

Elems(xs) == {xs[i] : i \in 1..Len(xs)}

\* variant of the merge loop: the membership test reads the propositions
\* rendered when the call began
RECURSIVE MergeAgainstRendered(_, _, _)
MergeAgainstRendered(props, existing, new_propositions) ==
    IF new_propositions = <<>> THEN props
    ELSE IF ~(\E k \in 1..Len(existing) :
                  OccursAt(Wrap(Head(new_propositions)), existing, k))
    THEN MergeAgainstRendered(Append(props, Head(new_propositions)), existing,
                              Tail(new_propositions))
    ELSE MergeAgainstRendered(props, existing, Tail(new_propositions))

\* the merge loop of a coroutine resumed after its extractor call: the
\* membership test and the append are on self.propositions as it is then
MergeOnResume(props, existing, new_propositions) == Merge(props, new_propositions)

\* extractor replies the overlapping calls are resumed with: a failure, text
\* without tags, and envelopes around one or two propositions that overlap
ConcExtractorReplies ==
    {ChatRaises,
     ChatText(S_no_new_facts),
     ChatText(Envelope(<< <<"A">> >>)),
     ChatText(Envelope(<< <<"B">> >>)),
     ChatText(Envelope(<< <<"A">>, <<"B">> >>)),
     ChatText(Envelope(<< <<" ">> \o OpenTag \o <<"a", "\n">> >>))}

PKInit ==
    pConc = [task |-> [t \in Tasks |-> IdlePTask], started |-> 0,
             replaced |-> FALSE, merged |-> {}, given |-> {}]

\* _aput(messages) is called as coroutine t and runs to the extractor call
Proposition_aput_start(t, messages) ==
    /\ pConc.task[t].pc \in {"idle", "returned", "raised"}
    /\ pConc.started < MaxIngests
    /\ pConc' = [pConc EXCEPT
           !.started = @ + 1,
           !.task[t] =
               IF NoMessages(messages)
               THEN [IdlePTask EXCEPT !.pc = "returned"]
               ELSE [IdlePTask EXCEPT !.pc = "extracting", !.messages = messages,
                                      !.existing = RenderPropositions(propositions)]]
    /\ UNCHANGED <<propositions, max_propositions>>

\* the extractor call of coroutine t returns or raises; the coroutine parses
\* the reply, merges, and returns or runs to the condenser call
Proposition_aput_extracted(t, reply) ==
    /\ pConc.task[t].pc = "extracting"
    /\ \E e \in {Extraction(reply)} :
       IF e.raised
       THEN /\ pConc' = [pConc EXCEPT !.task[t].pc = "raised"]
            /\ UNCHANGED propositions
       ELSE \E merged \in {MergeOnResume(propositions, pConc.task[t].existing, e.new)} :
            LET added == SubSeq(merged, Len(propositions) + 1, Len(merged))
                over == OverCap(merged, max_propositions)
            IN  /\ propositions' = merged
                /\ pConc' = [pConc EXCEPT
                       !.merged = @ \cup Elems(added),
                       !.given = IF over THEN @ \cup Elems(merged) ELSE @,
                       !.task = [u \in Tasks |->
                           IF u = t
                           THEN [@[t] EXCEPT
                                    !.pc = IF over THEN "condensing" ELSE "returned",
                                    !.cands = e.new, !.added = added, !.since = {}]
                           ELSE IF @[u].pc = "condensing"
                           THEN [@[u] EXCEPT !.since = @ \cup Elems(added)]
                           ELSE @[u]]]
    /\ UNCHANGED max_propositions

\* the condenser call of coroutine t returns or raises
Proposition_aput_condensed(t, reply) ==
    /\ pConc.task[t].pc = "condensing"
    /\ \E c \in {Condensation(reply)} :
       IF c.raised
       THEN /\ pConc' = [pConc EXCEPT !.task[t].pc = "raised"]
            /\ UNCHANGED propositions
       ELSE /\ propositions' = ReplaceIfAny(propositions, c.new)
            /\ pConc' = [pConc EXCEPT !.task[t].pc = "returned",
                                      !.replaced = @ \/ c.new # <<>>]
    /\ UNCHANGED max_propositions

\* no overlapping calls are under way
KIdle == CKInit /\ PKInit

----------------------------------------------------------------------------
(* Specifications *)

\* the condensed block alone, beside a proposition block that is never used
InitC ==
    /\ CInit /\ PInit /\ max_propositions = 1 /\ XInit /\ xml_parts = <<>>
    /\ RInit /\ agent = "summary"
    /\ SIdle /\ EIdle /\ KIdle
NextC ==
    /\ CNext
    /\ UNCHANGED pvars /\ UNCHANGED xvars /\ UNCHANGED <<agent, aReply>>
    /\ UNCHANGED svars /\ UNCHANGED evars /\ UNCHANGED kvars
SpecC == InitC /\ [][NextC]_vars

\* the proposition block alone, beside a condensed block that is never used
InitP ==
    /\ CInit /\ PInit /\ token_limit = 0 /\ XInit /\ xml_parts = <<>>
    /\ RInit /\ agent = "reductive"
    /\ SIdle /\ EIdle /\ KIdle
NextP ==
    /\ PNext
    /\ UNCHANGED cvars /\ UNCHANGED xvars /\ UNCHANGED <<agent, aReply>>
    /\ UNCHANGED svars /\ UNCHANGED evars /\ UNCHANGED kvars
SpecP == InitP /\ [][NextP]_vars

\* the parser alone, beside two blocks that are never used
InitX ==
    /\ CInit /\ PInit /\ token_limit = 0 /\ max_propositions = 1 /\ XInit
    /\ RInit /\ agent = "summary"
    /\ SIdle /\ EIdle /\ KIdle
NextX ==
    /\ XNext
    /\ UNCHANGED cvars /\ UNCHANGED pvars /\ UNCHANGED rvars
    /\ UNCHANGED svars /\ UNCHANGED evars /\ UNCHANGED kvars
SpecX == InitX /\ [][NextX]_vars

\* either block, ingesting and retrieving, under a budget that holds MaxEntries
\* entries and a cap of two
InitR == (InitC /\ token_limit = 40) \/ (InitP /\ max_propositions = 2)
GetC ==
    /\ agent = "summary" /\ Condensed_aget
    /\ UNCHANGED <<pvars, xvars, svars, evars, kvars, agent, aReply>>
GetP ==
    /\ agent = "reductive" /\ Proposition_aget
    /\ UNCHANGED <<cvars, xvars, svars, evars, kvars, agent, aReply>>
PutC == agent = "summary" /\ NextC
PutP == agent = "reductive" /\ NextP
NextR == PutC \/ PutP \/ GetC \/ GetP
SpecR == InitR /\ [][NextR]_vars

\* achat of either agent, as a function of what its block holds and of what
\* the memory read and the agent run do; the run is external, and what it
\* ingests into the block is the block's _aput above
InitA ==
    /\ RInit
    /\ CInit /\ token_limit = 40
    /\ propositions \in (IF agent = "reductive" THEN StoredLists ELSE {<<>>})
    /\ max_propositions = 2
    /\ pLast = NoAput /\ pRepeat = FALSE /\ pTriggered = FALSE
    /\ XInit /\ xml_parts = <<>>
    /\ SIdle /\ EIdle /\ KIdle
NextA == Summary_achat \/ Reductive_achat
SpecA == InitA /\ [][NextA]_vars

\* summarize_text_with_llm alone, beside blocks that are never used
InitS ==
    /\ CInit /\ PInit /\ token_limit = 0 /\ max_propositions = 1
    /\ XInit /\ xml_parts = <<>>
    /\ RInit /\ agent = "summary"
    /\ SInit /\ EIdle /\ KIdle
NextS ==
    /\ Summarize
    /\ UNCHANGED cvars /\ UNCHANGED pvars /\ UNCHANGED xvars /\ UNCHANGED rvars
    /\ UNCHANGED evars /\ UNCHANGED kvars
SpecS == InitS /\ [][NextS]_vars

\* the eviction loop alone, beside blocks that are never used; the loop is
\* straight-line code of one coroutine, so a step that is possible is taken
InitE ==
    /\ CInit /\ PInit /\ token_limit = 0 /\ max_propositions = 1
    /\ XInit /\ xml_parts = <<>>
    /\ RInit /\ agent = "summary"
    /\ SIdle /\ EInit /\ KIdle
StepE ==
    /\ EvictStep
    /\ UNCHANGED cvars /\ UNCHANGED pvars /\ UNCHANGED xvars /\ UNCHANGED rvars
    /\ UNCHANGED svars /\ UNCHANGED kvars
ExitE ==
    /\ EvictExit
    /\ UNCHANGED cvars /\ UNCHANGED pvars /\ UNCHANGED xvars /\ UNCHANGED rvars
    /\ UNCHANGED svars /\ UNCHANGED kvars
NextE == StepE \/ ExitE
SpecE == InitE /\ [][NextE]_vars
SpecEF == SpecE /\ WF_vars(StepE) /\ WF_vars(ExitE)

\* overlapping _aput calls on one condensed block, beside a proposition
\* block that is never used
InitCK ==
    /\ CInit /\ PInit /\ max_propositions = 1 /\ XInit /\ xml_parts = <<>>
    /\ RInit /\ agent = "summary"
    /\ SIdle /\ EIdle /\ KIdle
StartCK ==
    /\ \E t \in Tasks : \E messages \in ConcMessageLists :
           Condensed_aput_start(t, messages)
    /\ UNCHANGED <<cMessages, cAppended, cOutcome, cCalls, pConc>>
    /\ UNCHANGED pvars /\ UNCHANGED xvars /\ UNCHANGED rvars
    /\ UNCHANGED svars /\ UNCHANGED evars
ResumeCK ==
    /\ \E t \in Tasks : \E reply \in SummarizerReplies :
           Condensed_aput_resume(t, reply)
    /\ UNCHANGED <<cMessages, cAppended, cOutcome, cCalls, pConc>>
    /\ UNCHANGED pvars /\ UNCHANGED xvars /\ UNCHANGED rvars
    /\ UNCHANGED svars /\ UNCHANGED evars
NextCK == StartCK \/ ResumeCK
SpecCK == InitCK /\ [][NextCK]_vars

\* overlapping _aput calls on one proposition block, beside a condensed
\* block that is never used
InitPK ==
    /\ CInit /\ PInit /\ token_limit = 0 /\ XInit /\ xml_parts = <<>>
    /\ RInit /\ agent = "reductive"
    /\ SIdle /\ EIdle /\ KIdle
IdlePK ==
    /\ UNCHANGED <<pLast, pRepeat, pTriggered, cConc>>
    /\ UNCHANGED cvars /\ UNCHANGED xvars /\ UNCHANGED rvars
    /\ UNCHANGED svars /\ UNCHANGED evars
StartPK ==
    /\ \E t \in Tasks : \E messages \in PropTurns : Proposition_aput_start(t, messages)
    /\ IdlePK
ExtractedPK ==
    /\ \E t \in Tasks : \E reply \in ConcExtractorReplies :
           Proposition_aput_extracted(t, reply)
    /\ IdlePK
CondensedPK ==
    /\ \E t \in Tasks : \E reply \in CondenserReplies :
           Proposition_aput_condensed(t, reply)
    /\ IdlePK
NextPK == StartPK \/ ExtractedPK \/ CondensedPK
SpecPK == InitPK /\ [][NextPK]_vars

Init == CInit /\ PInit /\ XInit /\ RInit /\ SInit /\ EInit /\ KIdle
Next == NextC \/ NextP \/ NextX \/ GetC \/ GetP \/ NextA \/ NextS \/ NextE
Spec == Init /\ [][Next]_vars

----------------------------------------------------------------------------
(* Claims about CondensedMemoryBlock, checked under SpecC *)

\* C1: after every _aput that returns normally (token_limit >= 0), the
\* measured lengths of the entries of current_memory sum to at most
\* token_limit, unless exactly one entry remains.
C1_BudgetAfterIngest ==
    cOutcome = "ok" =>
        \/ message_length(current_memory) <= token_limit
        \/ Len(current_memory) = 1

\* an _aput whose appended entries alone were over the budget returned with
\* entries left and the budget holding
C1_Witness ==
    /\ cOutcome = "ok"
    /\ message_length(cAppended) > token_limit
    /\ current_memory # <<>>
    /\ message_length(current_memory) <= token_limit

\* C2: eviction never empties the list: after an _aput of at least one
\* message that returns normally, current_memory has at least one entry, and
\* when the entry appended last alone measures more than token_limit it is
\* kept as the single remaining entry.
C2_NeverEmptied ==
    (cOutcome = "ok" /\ cAppended # <<>>) =>
        /\ current_memory # <<>>
        /\ TokenCount(cAppended[Len(cAppended)]) > token_limit
               => current_memory = <<cAppended[Len(cAppended)]>>

\* C3: after an _aput that returns normally, current_memory is a contiguous
\* suffix of the entries held before the call followed by the entries the
\* call appended, in order and with their texts unchanged.
C3_SuffixAfterIngest ==
    [][cOutcome' = "ok" =>
           IsSuffixOf(current_memory', current_memory \o cAppended')]_vars

\* an _aput of two messages evicted the first entry it appended and kept the
\* second
C3_Witness ==
    /\ cOutcome = "ok"
    /\ Len(cAppended) >= 2
    /\ current_memory = Tail(cAppended)
    /\ message_length(cAppended) > token_limit

\* needle occurs somewhere in hay
Contains(needle, hay) == \E k \in 1..Len(hay) : OccursAt(needle, hay, k)

\* the annotation rendering of an entry: the entry from its last "\n({" on,
\* empty when the entry has none
AnnotationOf(entry) ==
    LET starts == {k \in 1..Len(entry) : OccursAt(<<"\n", "(", "{">>, entry, k)}
    IN  IF starts = {} THEN <<>>
        ELSE SubSeq(entry, CHOOSE k \in starts : \A j \in starts : j <= k, Len(entry))

\* 'key': as a dictionary key is rendered
RenderedKey(key) == <<"'">> \o key \o <<"'", ":", " ">>

HousekeepingKeys == {K_session_id, K_tool_call_id}

\* C14: the annotation rendering of a stored entry never has the keys
\* session_id or tool_call_id, in any entry of current_memory in any state,
\* and every other key of the message's additional_kwargs except tool_calls
\* is rendered in the entry appended for it with its value unchanged.
C14_AnnotationKeys ==
    /\ \A i \in 1..Len(current_memory) : \A key \in HousekeepingKeys :
           ~Contains(RenderedKey(key), AnnotationOf(current_memory[i]))
    /\ \A i \in 1..Len(cAppended) :
           LET items == cMessages[i].additional_kwargs
               rendering == AnnotationOf(cAppended[i])
           IN  /\ \A key \in HousekeepingKeys : ~Contains(RenderedKey(key), rendering)
               /\ \A j \in 1..Len(items) :
                      items[j].key \notin HousekeepingKeys \cup {K_tool_calls} =>
                          Contains(RenderedKey(items[j].key)
                                       \o <<"'">> \o items[j].val.str \o <<"'">>,
                                   rendering)

\* a message with session_id, tool_call_id and one more key was stored and
\* its entry is still held
C14_Witness ==
    /\ cOutcome = "ok"
    /\ \E i \in 1..Len(cAppended) :
           /\ \A key \in HousekeepingKeys :
                  \E j \in 1..Len(cMessages[i].additional_kwargs) :
                      cMessages[i].additional_kwargs[j].key = key
           /\ Contains(RenderedKey(K_keep), cAppended[i])
           /\ InList(cAppended[i], current_memory)

\* {'name': <function.name>, 'args': <function.arguments>} of a raw tool call
RenderedPair(tool_call) ==
    <<"{">> \o RenderedKey(K_name) \o <<"'">> \o tool_call.function.name \o <<"'">>
    \o <<",", " ">> \o RenderedKey(K_args) \o ReprArgs(tool_call.function.arguments)
    \o <<"}">>

\* C15: a tool_calls annotation is stored as a list with one {name, args}
\* pair per raw tool call, in the same order, name being the call's
\* function.name and args its function.arguments; no other field of the raw
\* call (its id) is stored.
C15_ToolCallsReduced ==
    \A i \in 1..Len(cAppended) :
        LET items == cMessages[i].additional_kwargs
            rendering == AnnotationOf(cAppended[i])
        IN  \A j \in 1..Len(items) :
                items[j].key = K_tool_calls =>
                    LET calls == items[j].val.calls
                    IN  /\ Contains(RenderedKey(K_tool_calls) \o <<"[">>
                                        \o join(<<",", " ">>,
                                                [k \in 1..Len(calls) |->
                                                    RenderedPair(calls[k])])
                                        \o <<"]">>,
                                    rendering)
                        /\ \A k \in 1..Len(calls) :
                               ~Contains(calls[k].id, cAppended[i])

\* a message with two raw tool calls of different names was stored
C15_Witness ==
    /\ cOutcome = "ok"
    /\ \E i \in 1..Len(cAppended) :
           \E j \in 1..Len(cMessages[i].additional_kwargs) :
               LET kv == cMessages[i].additional_kwargs[j]
               IN  /\ kv.key = K_tool_calls
                   /\ Len(kv.val.calls) = 2
                   /\ kv.val.calls[1].function.name # kv.val.calls[2].function.name
                   /\ Contains(RenderedKey(K_tool_calls), cAppended[i])
                   /\ InList(cAppended[i], current_memory)

\* xs without its first k elements
DropFirst(xs, k) == SubSeq(xs, k + 1, Len(xs))

\* C16: eviction removes no more than necessary: after an _aput that returns,
\* current_memory is the longest suffix of the entries held before the call
\* followed by the appended entries whose measured lengths sum to at most
\* token_limit; so nothing is evicted when everything fits, and the entry
\* of the last message is kept whenever it alone fits.
C16_LongestFittingSuffix ==
    [][cOutcome' = "ok" =>
           LET all == current_memory \o cAppended'
               fitting == {k \in 0..Len(all) :
                              message_length(DropFirst(all, k)) <= token_limit}
           IN  /\ \E k \in fitting :
                      /\ \A j \in fitting : k <= j
                      /\ current_memory' = DropFirst(all, k)
               /\ message_length(all) <= token_limit => current_memory' = all
               /\ (cAppended' # <<>>
                       /\ TokenCount(cAppended'[Len(cAppended')]) <= token_limit) =>
                      /\ current_memory' # <<>>
                      /\ current_memory'[Len(current_memory')]
                             = cAppended'[Len(cAppended')]]_vars

\* an _aput of one message left an earlier entry in place with the budget
\* used up to the last token
C16_Witness ==
    /\ cOutcome = "ok"
    /\ token_limit > 0
    /\ Len(cAppended) = 1
    /\ Len(current_memory) >= 2
    /\ message_length(current_memory) = token_limit

----------------------------------------------------------------------------
(* Claims about PropositionExtractionMemoryBlock, checked under SpecP *)

\* the last _aput made the extractor call and it returned
Extracted(r) == r.calls # <<>> /\ ~r.calls[1].raised

\* the candidates parsed from the extractor reply of _aput r
CandidatesOf(r) == parse_propositions_xml(ContentOrEmpty(r.calls[1].reply))

\* the propositions parsed from the condenser reply of _aput r
CondenserOutputOf(r) == parse_propositions_xml(ContentOrEmpty(r.calls[2].reply))

Occurrences(x, xs) == Cardinality({i \in 1..Len(xs) : xs[i] = x})

\* the first occurrence of each candidate that is neither in pre nor earlier
\* among the candidates, in the candidates' order, from index i on
RECURSIVE FirstNew(_, _, _)
FirstNew(pre, cands, i) ==
    IF i > Len(cands) THEN <<>>
    ELSE (IF ~InList(cands[i], pre) /\ \A j \in 1..(i - 1) : cands[j] # cands[i]
          THEN <<cands[i]>> ELSE <<>>)
         \o FirstNew(pre, cands, i + 1)

\* C4: in every state reached from an empty block by _aput calls, including
\* calls that trigger condensation, no two elements of propositions are
\* equal strings.
C4_NoDuplicates == NoDuplicates(propositions)

\* C5: after every _aput that returns normally, len(propositions) is at most
\* max_propositions.
C5_CapAfterIngest ==
    pLast.outcome \in {"ok", "noop"} => Len(propositions) <= max_propositions

\* C6: if the extractor call raises, _aput raises, no condenser call is made
\* and propositions is what it was before the call.
C6_ExtractorFailure ==
    (pLast.calls # <<>> /\ pLast.calls[1].raised) =>
        /\ pLast.outcome = "raised"
        /\ Len(pLast.calls) = 1
        /\ propositions = pLast.pre

\* the extractor call of an _aput on a non-empty list raised
C6_Witness ==
    /\ pLast.calls # <<>>
    /\ pLast.calls[1].raised
    /\ pLast.outcome = "raised"
    /\ propositions # <<>>

\* C7: when two successive _aput calls get the same candidate texts from the
\* extractor and neither calls the condenser, the second leaves propositions
\* as the first left it, with every candidate stored; each candidate is
\* stored exactly once if no _aput of the block ever called the condenser.
C7_RepeatIsIdempotent ==
    pRepeat =>
        /\ propositions = pLast.pre
        /\ \A i \in 1..Len(CandidatesOf(pLast)) :
               /\ InList(CandidatesOf(pLast)[i], propositions)
               /\ ~pTriggered => Occurrences(CandidatesOf(pLast)[i], propositions) = 1

\* the same two candidates, one of them twice in the reply, came in two
\* successive _aput calls
C7_Witness ==
    /\ pRepeat
    /\ ~pTriggered
    /\ Len(CandidatesOf(pLast)) >= 2
    /\ Len(propositions) >= 1

\* C8: the merge step yields the list held before the call, unchanged and in
\* order, followed by the first occurrence of each parsed candidate that is
\* neither in that list nor earlier in the same reply, in reply order; when
\* no condenser call follows, that is the list the call leaves.
C8_MergeStep ==
    Extracted(pLast) =>
        /\ pLast.merged = pLast.pre \o FirstNew(pLast.pre, CandidatesOf(pLast), 1)
        /\ Len(pLast.calls) = 1 => propositions = pLast.merged

\* a reply holding the same new candidate twice was merged into a non-empty
\* list, which grew by one
C8_Witness ==
    /\ Extracted(pLast)
    /\ pLast.pre # <<>>
    /\ Len(CandidatesOf(pLast)) >= 2
    /\ CandidatesOf(pLast)[1] = CandidatesOf(pLast)[2]
    /\ Len(pLast.merged) = Len(pLast.pre) + 1

\* C9: when the condenser is called and its reply parses to no proposition,
\* _aput returns normally and propositions is the post-merge list, still
\* over the cap.
C9_EmptyCondensation ==
    (Condensed(pLast) /\ ~pLast.calls[2].raised /\ CondenserOutputOf(pLast) = <<>>) =>
        /\ pLast.outcome = "ok"
        /\ propositions = pLast.merged
        /\ Len(propositions) > max_propositions

\* a condenser reply without tags came back for a list the merge had grown
C9_Witness ==
    /\ Condensed(pLast)
    /\ ~pLast.calls[2].raised
    /\ CondenserOutputOf(pLast) = <<>>
    /\ Len(pLast.merged) > Len(pLast.pre)
    /\ pLast.outcome = "ok"

\* C10: when the condenser is called and its reply parses to at least one
\* proposition, propositions is exactly the parsed reply, in its order, with
\* nothing of the prior list merged in and no deduplication.
C10_CondenserReplaces ==
    (Condensed(pLast) /\ ~pLast.calls[2].raised /\ CondenserOutputOf(pLast) # <<>>) =>
        propositions = CondenserOutputOf(pLast)

\* the condenser returned a proposition twice and dropped one of the list
C10_Witness ==
    /\ Condensed(pLast)
    /\ ~pLast.calls[2].raised
    /\ ~NoDuplicates(CondenserOutputOf(pLast))
    /\ \E i \in 1..Len(pLast.merged) : ~InList(pLast.merged[i], propositions)
    /\ propositions = CondenserOutputOf(pLast)

\* x occurs as a substring of some element of props
Represented(x, props) ==
    \E i \in 1..Len(props) : \E k \in 1..Len(props[i]) : OccursAt(x, props[i], k)

\* the propositions the merge step of _aput r appended
AddedBy(r) == SubSeq(r.merged, Len(r.pre) + 1, Len(r.merged))

\* C11: a proposition added by the _aput that triggers condensation
\* survives that condensation: after an _aput that called the condenser and
\* returned normally, every proposition its merge step appended occurs in
\* some element of propositions (as with max_propositions = 2 and a third
\* _aput adding a third distinct proposition).
C11_NewestSurvives ==
    (Condensed(pLast) /\ pLast.outcome = "ok") =>
        \A i \in 1..Len(AddedBy(pLast)) : Represented(AddedBy(pLast)[i], propositions)

\* C12: if the condenser call raises, _aput raises and propositions is the
\* post-merge list: the list held before the call followed by the candidates
\* merged in this call, not rolled back.
C12_CondenserFailure ==
    (Condensed(pLast) /\ pLast.calls[2].raised) =>
        /\ pLast.outcome = "raised"
        /\ propositions = pLast.merged
        /\ propositions = pLast.pre \o FirstNew(pLast.pre, CandidatesOf(pLast), 1)

\* the condenser call raised after the merge step had appended to a
\* non-empty list
C12_Witness ==
    /\ Condensed(pLast)
    /\ pLast.calls[2].raised
    /\ pLast.pre # <<>>
    /\ Len(propositions) > Len(pLast.pre)
    /\ Len(propositions) > max_propositions

----------------------------------------------------------------------------
(* Claims about _parse_propositions_xml, checked under SpecX *)

\* the elements found scanning the pieces left to right: an open tag outside
\* an element opens one, the nearest close tag after it closes it, every
\* piece between the two is its content, and pieces outside are skipped
RECURSIVE ScanParts(_, _, _)
ScanParts(parts, inside, content) ==
    IF parts = <<>> THEN <<>>
    ELSE IF ~inside
    THEN ScanParts(Tail(parts), Head(parts) = OpenTag, <<>>)
    ELSE IF Head(parts) = CloseTag
    THEN <<content>> \o ScanParts(Tail(parts), FALSE, <<>>)
    ELSE ScanParts(Tail(parts), TRUE, content \o Head(parts))

\* C13: _parse_propositions_xml returns the contents of the non-overlapping
\* <proposition>...</proposition> pairs found scanning left to right, each
\* open tag paired with the nearest following close tag, each content
\* trimmed, the contents empty after trimming dropped, in order of
\* appearance; text outside the pairs is ignored and a text without a
\* well-formed pair gives the empty list.
C13_ParseContract ==
    parsed.done =>
        LET found == ScanParts(xml_parts, FALSE, <<>>)
            trimmed == [i \in 1..Len(found) |-> strip(found[i])]
        IN  parsed.value = SelectSeq(trimmed, LAMBDA c : c # <<>>)

\* a text with two elements, the first padded with whitespace and a line
\* break, gave two different propositions in order
C13_Witness ==
    /\ parsed.done
    /\ Len(parsed.value) = 2
    /\ parsed.value[1] = <<"A">>
    /\ parsed.value[2] = <<"B">>
    /\ \E i \in 1..Len(xml_parts) : xml_parts[i] = <<" ", "\n">>

----------------------------------------------------------------------------
(* Claims about _aget of both blocks, checked under SpecR *)

\* where the i-th part starts in the parts joined by a one-character separator
RECURSIVE Offset(_, _)
Offset(parts, i) ==
    IF i <= 1 THEN 0 ELSE Offset(parts, i - 1) + Len(parts[i - 1]) + 1

\* text is the parts in order with one newline between neighbours
IsNewlineJoined(text, parts) ==
    IF parts = <<>> THEN text = <<>>
    ELSE /\ Len(text) = Offset(parts, Len(parts)) + Len(parts[Len(parts)])
         /\ \A i \in 1..Len(parts) :
                SubSeq(text, Offset(parts, i) + 1, Offset(parts, i) + Len(parts[i]))
                    = parts[i]
         /\ \A i \in 1..(Len(parts) - 1) :
                text[Offset(parts, i) + Len(parts[i]) + 1] = "\n"

\* C17: _aget returns the empty string for an empty collection on both
\* blocks; otherwise the condensed block returns its entries joined by
\* newline in stored order and the proposition block returns each
\* proposition as <proposition>...</proposition>, joined by newline in
\* stored order.
C17_Retrieve ==
    /\ got.block = "condensed" =>
           /\ current_memory = <<>> => got.text = <<>>
           /\ IsNewlineJoined(got.text, current_memory)
    /\ got.block = "proposition" =>
           /\ propositions = <<>> => got.text = <<>>
           /\ IsNewlineJoined(got.text,
                              [i \in 1..Len(propositions) |->
                                  OpenTag \o propositions[i] \o CloseTag])

\* _aget returned the text of two different propositions
C17_Witness ==
    /\ got.block = "proposition"
    /\ Len(propositions) = 2
    /\ propositions[1] # propositions[2]
    /\ got.text # <<>>

\* C18: _aget on either block leaves the entries, the propositions, the
\* budget and the cap as they are and makes no external call, in every
\* state and at every call.
C18_RetrieveIsPure ==
    [][got' # NoGet =>
           /\ UNCHANGED <<current_memory, token_limit, propositions, max_propositions>>
           /\ got'.calls = <<>>]_vars

\* _aget returned the text of a block holding two entries
C18_Witness ==
    /\ got.block = "condensed"
    /\ Len(current_memory) = 2
    /\ got.text # <<>>

----------------------------------------------------------------------------
(* Claims about the constructors, checked under SpecC *)

\* C19: a block constructed with a non-positive token_limit or
\* max_propositions fails at construction, so no block with a non-positive
\* budget or cap ever gets to an _aput.
C19_PositiveAtFirstIngest ==
    /\ cOutcome # "none" => token_limit > 0
    /\ pLast.outcome # "none" => max_propositions > 0

----------------------------------------------------------------------------
(* Claims about the agents, checked under SpecA *)

\* C20: whenever the agent run or the memory read of achat raises an
\* Exception, achat does not raise and returns an AgentReply whose
\* response_str is the fixed fallback message; when both succeed it returns
\* an AgentReply carrying the content of the response.
C20_FallbackReply ==
    aReply.outcome # "none" =>
        /\ (aReply.read = "Exception" \/ aReply.run.type = "Exception") =>
               /\ aReply.outcome = "returned"
               /\ aReply.response_str = S_fallback
        /\ (aReply.read # "Exception"
                /\ aReply.run.type \in {"AgentOutput", "ChatMessage", "other"}) =>
               /\ aReply.outcome = "returned"
               /\ aReply.response_str = aReply.run.content

\* the memory read of a ReductiveAgent whose block holds propositions raised
\* and achat returned the fallback message
C20_Witness ==
    /\ agent = "reductive"
    /\ propositions # <<>>
    /\ aReply.read = "Exception"
    /\ aReply.outcome = "returned"
    /\ aReply.response_str = S_fallback

----------------------------------------------------------------------------
(* Claims about the calls of PropositionExtractionMemoryBlock._aput,       *)
(* checked under SpecP                                                     *)

\* C21: _aput with an empty list of messages is a no-op: it makes no
\* extractor call and no condenser call and leaves propositions as it was,
\* also when propositions is over the cap.
C21_EmptyIngestIsNoop ==
    (pLast.outcome # "none" /\ pLast.turns = 0) =>
        /\ pLast.outcome = "noop"
        /\ pLast.calls = <<>>
        /\ propositions = pLast.pre

\* _aput got no messages while the list was over the cap
C21_Witness ==
    /\ pLast.outcome = "noop"
    /\ pLast.turns = 0
    /\ Len(propositions) > max_propositions

\* C22: within one _aput the external calls are ordered: the extractor call
\* comes first, with the rendering of the list held before the call; a
\* condenser call is made only after the extractor call has returned and its
\* candidates are merged, with the rendering of the post-merge list; there
\* is at most one call of each kind.
C22_CallOrder ==
    /\ Len(pLast.calls) <= 2
    /\ pLast.calls # <<>> =>
           /\ pLast.calls[1].kind = "extract"
           /\ IsNewlineJoined(pLast.calls[1].existing_propositions,
                              [i \in 1..Len(pLast.pre) |->
                                  OpenTag \o pLast.pre[i] \o CloseTag])
    /\ Len(pLast.calls) = 2 =>
           LET merged == pLast.pre \o FirstNew(pLast.pre, CandidatesOf(pLast), 1)
           IN  /\ ~pLast.calls[1].raised
               /\ pLast.calls[2].kind = "condense"
               /\ IsNewlineJoined(pLast.calls[2].existing_propositions,
                                  [i \in 1..Len(merged) |->
                                      OpenTag \o merged[i] \o CloseTag])

\* the condenser was called after a merge that appended to a non-empty list
C22_Witness ==
    /\ Len(pLast.calls) = 2
    /\ pLast.calls[2].kind = "condense"
    /\ pLast.pre # <<>>
    /\ Len(pLast.merged) > Len(pLast.pre)

\* C23: in an _aput with messages whose extractor call returns, the condenser
\* is called if and only if the list is longer than max_propositions after
\* the merge step: not when its length equals the cap, and also when nothing
\* was appended to a list that was already over the cap.
C23_CondenserTrigger ==
    Extracted(pLast) =>
        (Len(pLast.calls) = 2 <=> Len(pLast.merged) > max_propositions)

\* nothing was appended to a list already over the cap and the condenser was
\* called
C23_Witness ==
    /\ Extracted(pLast)
    /\ pLast.merged = pLast.pre
    /\ Len(pLast.pre) > max_propositions
    /\ Len(pLast.calls) = 2

\* C24: the condenser call carries no conversation turns: its input is the
\* condense instruction with the whole current list and the cap.
C24_CondenserWithoutTurns ==
    Len(pLast.calls) = 2 =>
        /\ pLast.calls[2].messages = <<>>
        /\ pLast.calls[2].max_propositions = max_propositions
        /\ pLast.calls[2].existing_propositions = RenderPropositions(pLast.merged)

\* text has an open tag with a close tag somewhere after it
HasPair(text) ==
    \E i \in 1..Len(text) :
        /\ OccursAt(OpenTag, text, i)
        /\ \E j \in (i + Len(OpenTag))..Len(text) : OccursAt(CloseTag, text, j)

\* the extractor call of _aput r returned a reply without a tag pair
NoPairExtracted(r) ==
    Extracted(r) /\ ~HasPair(ContentOrEmpty(r.calls[1].reply))

\* C25 as stated: when the extractor reply has no well-formed tag pair
\* (content empty or absent included), _aput does not raise and the merge
\* step leaves propositions as it was before the call.
C25_NoPairNeverRaises ==
    NoPairExtracted(pLast) =>
        /\ pLast.outcome = "ok"
        /\ pLast.merged = pLast.pre

\* C25, amended: when the extractor reply has no well-formed tag pair, the
\* merge step leaves propositions as it was before the call, and _aput
\* raises only if the list was already over the cap and the condenser call
\* made for that reason raises; without a condenser call it returns with
\* propositions unchanged.
C25_NoPairMergesNothing ==
    NoPairExtracted(pLast) =>
        /\ pLast.merged = pLast.pre
        /\ pLast.outcome = "raised" <=> (Len(pLast.calls) = 2 /\ pLast.calls[2].raised)
        /\ Len(pLast.calls) = 1 =>
               /\ pLast.outcome = "ok"
               /\ propositions = pLast.pre

\* a reply with an open tag that is never closed came back for a non-empty
\* list and _aput returned
C25_Witness ==
    /\ NoPairExtracted(pLast)
    /\ Contains(OpenTag, ContentOrEmpty(pLast.calls[1].reply))
    /\ pLast.pre # <<>>
    /\ pLast.outcome = "ok"
    /\ propositions = pLast.pre

----------------------------------------------------------------------------
(* Claims about the summarizer calls of CondensedMemoryBlock._aput, checked
   under SpecC *)

\* the (turn, block) positions of the text blocks whose trimmed text is
\* longer than the ceiling
LongPositions(messages) ==
    UNION {{[turn |-> k, block |-> j] :
               j \in {i \in 1..Len(messages[k].blocks) :
                         /\ messages[k].blocks[i].kind = "text"
                         /\ Len(strip(messages[k].blocks[i].text)) > MAX_SUMMARY_CHARS}} :
           k \in 1..Len(messages)}

PositionBefore(a, b) ==
    a.turn < b.turn \/ (a.turn = b.turn /\ a.block < b.block)

IsTextBlock(b) == b.kind = "text"

\* the trimmed texts of the text blocks of a message, in order
TrimmedTexts(message) ==
    LET ts == SelectSeq(message.blocks, IsTextBlock)
    IN  [i \in 1..Len(ts) |-> strip(ts[i].text)]

\* the entry without its annotation
TextOf(entry) == SubSeq(entry, 1, Len(entry) - Len(AnnotationOf(entry)))

\* C26: in every _aput the summarizer is called exactly once for each text
\* block whose trimmed length exceeds 128, in the order of the blocks, and
\* for no other block (when a call raises, the calls made are those up to
\* the failing block); an entry appended for a message none of whose text
\* blocks exceeds the ceiling has, before its annotation, exactly the
\* trimmed texts of the text blocks joined by newlines, so blocks that are
\* not text contribute nothing.
C26_SummarizerCalls ==
    LET long == LongPositions(cMessages)
    IN  /\ \A i \in 1..Len(cCalls) : cCalls[i] \in long
        /\ \A i, j \in 1..Len(cCalls) : i < j => PositionBefore(cCalls[i], cCalls[j])
        /\ cOutcome \in {"ok", "hang"} =>
               \A pos \in long : \E i \in 1..Len(cCalls) : cCalls[i] = pos
        /\ cOutcome = "raised" =>
               /\ cCalls # <<>>
               /\ cCalls[Len(cCalls)].turn = Len(cAppended) + 1
               /\ \A pos \in long :
                      PositionBefore(pos, cCalls[Len(cCalls)]) =>
                          \E i \in 1..Len(cCalls) : cCalls[i] = pos
        /\ \A k \in 1..Len(cAppended) :
               (\A pos \in long : pos.turn # k) =>
                   IsNewlineJoined(TextOf(cAppended[k]), TrimmedTexts(cMessages[k]))

\* an _aput of a message with a short text block and an image block, then a
\* message whose second block is a long text: one call, for that block
C26_Witness ==
    /\ cOutcome = "ok"
    /\ cMessages = <<MsgTool, MsgLong>>
    /\ cCalls = <<[turn |-> 2, block |-> 2]>>
    /\ TextOf(cAppended[1]) = S_go

----------------------------------------------------------------------------
(* Claims about summarize_text_with_llm, checked under SpecS *)

Whitespace == {" ", "\n"}

\* C27: a string returned by summarize_text_with_llm(text, max_chars) has at
\* most max_chars + 3 characters: it is the trimmed text, of at most
\* max_chars characters, when that fits; else the trimmed summary, of at
\* most max_chars characters, when that fits; and else the first max_chars
\* characters of the trimmed summary without their trailing whitespace,
\* followed by "...".
C27_LengthBound ==
    (sResult.done /\ ~sResult.raised) =>
        LET text == strip(sArgs.text)
            summary == strip(sArgs.reply.text)
            n == Len(sResult.text)
            max_chars == sArgs.max_chars
        IN  /\ n <= max_chars + 3
            /\ Len(text) <= max_chars =>
                   sResult.text = text /\ n <= max_chars /\ ~sResult.called
            /\ (Len(text) > max_chars /\ Len(summary) <= max_chars) =>
                   sResult.text = summary /\ n <= max_chars
            /\ (Len(text) > max_chars /\ Len(summary) > max_chars) =>
                   /\ n >= 3
                   /\ SubSeq(sResult.text, n - 2, n) = <<".", ".", ".">>
                   /\ SubSeq(sResult.text, 1, n - 3) = SubSeq(summary, 1, n - 3)
                   /\ n - 3 > 0 => sResult.text[n - 3] \notin Whitespace
                   /\ \A i \in (n - 2)..max_chars : summary[i] \in Whitespace

\* a summary of three characters under a ceiling of two, whose second
\* character is a space: the result is its first character and the marker
C27_Witness ==
    /\ sResult.done /\ ~sResult.raised /\ sResult.called
    /\ sArgs.max_chars = 2
    /\ strip(sArgs.reply.text) = <<"y", " ", "y">>
    /\ sResult.text = <<"y", ".", ".", ".">>

----------------------------------------------------------------------------
(* Claims about an _aput of CondensedMemoryBlock that a summarizer failure
   ends, checked under SpecC *)

\* the entries one message can be stored as, over the replies of the
\* summarizer calls made for it
EntriesOf(message) ==
    {MemoryStr(message,
               SummarizeBlocks(message.blocks, 1, replies, <<>>, <<>>).summaries) :
        replies \in {rs \in [1..CallsOfBlocks(message.blocks) -> SummarizerReplies] :
                        \A i \in 1..Len(rs) : ~rs[i].raised}}

\* C28: when a summarizer call raises while turn k of an _aput is processed,
\* the _aput raises and current_memory is the list held before the call
\* followed by one entry for each of the turns 1..k-1, in order; nothing is
\* appended for turn k or a later turn, and no entry is taken back.  An
\* _aput in which no call raises appends an entry for every turn.
C28_AbortKeepsEarlierTurns ==
    [][/\ cOutcome' = "raised" =>
              LET k == cCalls'[Len(cCalls')].turn
              IN  /\ current_memory' = current_memory \o cAppended'
                  /\ Len(cAppended') = k - 1
                  /\ k <= Len(cMessages')
                  /\ \A i \in 1..(k - 1) : cAppended'[i] \in EntriesOf(cMessages'[i])
       /\ cOutcome' \in {"ok", "hang"} => Len(cAppended') = Len(cMessages')
      ]_vars

\* an _aput on a block that holds one entry, aborted in its second turn
C28_Witness ==
    /\ cOutcome = "raised"
    /\ Len(cMessages) = 2
    /\ Len(cAppended) = 1
    /\ Len(current_memory) = 2
    /\ cCalls[Len(cCalls)].turn = 2

\* C29: under a token_limit >= 0, in every state between two _aput calls,
\* the one after an _aput that a summarizer failure ended included, the
\* measured lengths of the entries of current_memory sum to at most
\* token_limit or current_memory has exactly one entry.
C29_BudgetBetweenIngests ==
    token_limit >= 0 =>
        \/ message_length(current_memory) <= token_limit
        \/ Len(current_memory) = 1

----------------------------------------------------------------------------
(* Claims about the eviction loop of CondensedMemoryBlock._aput, checked
   under SpecEF *)

\* C30: for every token_limit >= 0 the eviction loop, entered after the
\* appends of an _aput, ends, and its body has run at most as often as
\* current_memory had entries when the loop was entered; what it leaves is
\* the list with its oldest entries dropped until the rest fits.
C30_EvictionTerminates ==
    /\ [](eLimit >= 0 => eRemovals <= Len(eStart))
    /\ [](ePc = "done" => eLimit >= 0 /\ eMemory = Evict(eStart, eLimit))
    /\ (eLimit >= 0) ~> (ePc = "done")

\* a loop that ended after it removed every one of at least two entries
C30_Witness ==
    /\ ePc = "done"
    /\ eLimit >= 0
    /\ Len(eStart) >= 2
    /\ eRemovals = Len(eStart)

----------------------------------------------------------------------------
(* Claims about what PropositionExtractionMemoryBlock stores, checked under
   SpecP *)

\* C31: in every state of a block that started empty, after any _aput calls,
\* _parse_propositions_xml applied to what _aget returns gives back
\* propositions, the same elements in the same order; and every stored
\* proposition is non-empty, neither begins nor ends with whitespace, and
\* does not contain </proposition>.
C31_RetrieveParsesBack ==
    /\ parse_propositions_xml(Proposition_aget_text(propositions)) = propositions
    /\ \A i \in 1..Len(propositions) :
           /\ propositions[i] # <<>>
           /\ ~IsSpace(propositions[i][1])
           /\ ~IsSpace(propositions[i][Len(propositions[i])])
           /\ ~Contains(CloseTag, propositions[i])

\* two stored propositions, one of which begins with an open tag of its own
C31_Witness ==
    /\ Len(propositions) = 2
    /\ \E i \in 1..2 : OccursAt(OpenTag, propositions[i], 1)

----------------------------------------------------------------------------
(* Claims about overlapping _aput calls on one CondensedMemoryBlock, checked
   under SpecCK *)

\* the coroutine t returns in this step
Returns_aput(t) == cConc.task[t].pc # "returned" /\ cConc'.task[t].pc = "returned"

\* C32: with _aput calls overlapping on one instance, switching only where
\* an acomplete call suspends, and token_limit >= 0: at the moment any of
\* the calls returns, the measured lengths of the entries of current_memory
\* sum to at most token_limit.
C32_BudgetAtEveryReturn ==
    [][\A t \in Tasks :
          (Returns_aput(t) /\ token_limit >= 0) =>
              message_length(current_memory') <= token_limit]_vars

\* a call has returned and left an entry that the other call, still
\* suspended in its second turn, appended before it was suspended
C32_Witness ==
    \E t, u \in Tasks :
        /\ cConc.task[t].pc = "returned"
        /\ cConc.task[u].pc = "awaiting"
        /\ cConc.task[u].turn = 2
        /\ Len(cConc.task[t].messages) = 2
        /\ Len(current_memory) >= 2

----------------------------------------------------------------------------
(* Claims about overlapping _aput calls on one
   PropositionExtractionMemoryBlock, checked under SpecPK *)

\* C33: with _aput calls overlapping on one instance, switching only where
\* an achat call suspends: until a condenser output has replaced the list,
\* no two elements of propositions are equal.
C33_NoDuplicatesBeforeCondensation ==
    ~pConc.replaced => NoDuplicates(propositions)

\* a call whose reply held a proposition that was not stored when the call
\* began and that the call did not append: the other call had merged it
\* in between
C33_Witness ==
    /\ ~pConc.replaced
    /\ \E t \in Tasks :
           /\ pConc.task[t].pc \in {"returned", "condensing"}
           /\ pConc.task[t].added # <<>>
           /\ \E i \in 1..Len(pConc.task[t].cands) :
                  /\ ~InList(pConc.task[t].cands[i], pConc.task[t].added)
                  /\ ~Contains(Wrap(pConc.task[t].cands[i]), pConc.task[t].existing)

\* C34: with two _aput calls overlapping on one instance, a proposition that
\* one call merged while the condenser call of the other was outstanding is
\* still in propositions when that condenser call has returned; and every
\* proposition merged by either call is in propositions or was in a list
\* given to a condenser.
C34_MergedSurvivesOtherCondenser ==
    /\ [][\A t \in Tasks :
              (pConc.task[t].pc = "condensing" /\ pConc'.task[t].pc = "returned") =>
                  \A x \in pConc.task[t].since : InList(x, propositions')]_vars
    /\ [](\A x \in pConc.merged : InList(x, propositions) \/ x \in pConc.given)

====
